---- MODULE Spec2Model ----
(***************************************************************************)
(* State-machine model of bigrest.bigip.BIGIP: the asynchronous task       *)
(* operations (task_start, task_wait, task_completed, task_result, exist)  *)
(* and the transaction operations (transaction_create,                     *)
(* transaction_validate, transaction_commit, __enter__, __exit__) of one   *)
(* session used by a single caller.                                        *)
(*                                                                         *)
(* Every network request, every call of the token check and every sleep    *)
(* of the running operation is appended to `log`, each request with the    *)
(* session headers it was sent with.  The device is the environment: each  *)
(* request is answered by a response drawn from a finite set.              *)
(***************************************************************************)
EXTENDS Integers, Sequences, FiniteSets, TLC

(* ------------------------------ bounds --------------------------------- *)

\* Largest number of GETs one task_wait call issues in the model (the loop
\* of the code has no limit).
MaxPolls == 2

(* ----------------------------- constants ------------------------------- *)

ImportKind == "tm:asm:tasks:import-policy:import-policy-taskstate"
OtherKind == "tm:task:sys:config:save"
CoordinationId == "X-F5-REST-Coordination-Id"
TransactionPath == <<"/mgmt/tm/transaction">>
TaskPath == <<"/mgmt/tm/task/sys/config">>
ExistPath == <<"/mgmt/tm/ltm/pool/p1">>
DefaultInterval == 10

\* Python's None as the value of refresh_token.
None == "None"
\* Python's None as the value of _transaction before any create.
NoTransaction == 0

(* ------------------------ the device's answers ------------------------- *)

TaskStates == {"STARTED", "COMPLETED", "FAILURE"}
TransIds == {1001, 1002}

NoBody == [empty |-> TRUE]
NoResponse == [status |-> 0, timeout |-> FALSE, body |-> NoBody]
EmptyData == [empty |-> TRUE]

\* JSON bodies of a task resource.  The device keeps the wire contract: a body
\* carries kind and the fields of both schemas, whose values vary independently.
TaskBodies ==
  [kind : {ImportKind, OtherKind}, id : {"42"}, _taskId : {7},
   state : TaskStates, _taskState : TaskStates]

TransactionBodies == [transId : TransIds]

ResultBodies == {[commandResult |-> "OK 5 items"], [kind |-> OtherKind]}

\* A response: its status code, whether its text contains
\* "AsyncContext timeout", and its JSON body.  `reads` are the statuses under
\* which the requesting code reads the body: under them every body of
\* `bodies` is answered, under the other statuses the body is never looked at.
ResponsesOf(reads, bodies) ==
  [status : reads, timeout : {FALSE}, body : bodies]
    \cup [status : {200, 201, 202} \ reads, timeout : {FALSE}, body : {NoBody}]
    \cup [status : {404}, timeout : {FALSE}, body : {NoBody}]
    \cup [status : {500}, timeout : BOOLEAN, body : {NoBody}]

\* Answers to the POST of task_start (line 64): kind, id and _taskId are read.
PostResponses ==
  ResponsesOf({200, 201}, {b \in TaskBodies : b.state = "STARTED" /\ b._taskState = "STARTED"})
\* Answers to the PUT of task_start (line 75).
PutResponses == ResponsesOf({}, {})
\* Answers to the GET of task_start (line 78): the body becomes the result.
GetResponses == ResponsesOf({200, 202}, TaskBodies)
\* Answers to the GET of task_wait and task_completed (lines 104, 138).
PollResponses == ResponsesOf({200}, TaskBodies)
\* Answers to the GET of task_result (line 170).
ResultResponses == ResponsesOf({200}, ResultBodies)
\* Answers to the GET of exist (line 194).
ExistResponses == ResponsesOf({}, {})
\* Answers to the POST and PATCH of the transaction operations.
TransactionResponses == ResponsesOf({200}, TransactionBodies)

\* The task object a caller passes to task_wait, task_completed, task_result.
TaskObjs == {[selfLink |-> TaskPath \o <<"42">>]}

Payloads == {[command |-> "save"]}

(* ------------------------------- state --------------------------------- *)

VARIABLES
  request_token,   \* constructor argument request_token
  refresh_token,   \* self.refresh_token
  headers,         \* self.session.headers (the coordination entry)
  _transaction,    \* self._transaction
  pc,              \* where the caller is: "idle" or inside task_start / task_wait
  url,             \* local url of the running operation
  data,            \* local data of task_start
  interval,        \* argument interval of task_wait
  response,        \* the last response received by the running (or last) operation
  log,             \* requests, token checks and sleeps of the running (or last) operation
  outcome,         \* how the last operation ended
  scope,           \* with-statement: "out" or "body"
  created,         \* history: transId returned by the last successful transaction_create
  open,            \* history: a create or validate succeeded, no validate or commit call since
  validated,       \* history: a validate succeeded since the last successful create
  committed,       \* history: a commit sent its PATCH since the last successful create
  overwritten      \* history: the last successful create replaced another transaction's header

vars == <<request_token, refresh_token, headers, _transaction, pc, url, data,
          interval, response, log, outcome, scope, created, open,
          validated, committed, overwritten>>

config == <<request_token, refresh_token>>
session == <<headers, _transaction>>
locals == <<url, data, interval>>
history == <<created, open, validated, committed, overwritten>>

(* ------------------------------ helpers -------------------------------- *)

\* f"{value}" of an integer
Str(v) == IF v = NoTransaction THEN "None" ELSE ToString(v)

\* BIG._get_url: the device address followed by the path
_get_url(path) == <<"https://device">> \o path

\* BIG._get_path: the path of the object's selfLink
_get_path(obj) == obj.selfLink

\* One request sent through the session with the headers `hdr`, and the
\* response it received.
Sent(method, u, json, hdr, resp) ==
  [method |-> method, url |-> u, json |-> json, hdr |-> hdr, resp |-> resp]

\* A request sent with the session's current headers.
Request(method, u, json, resp) == Sent(method, u, json, headers, resp)

CheckEvent == [method |-> "CHECK"]
SleepEvent(secs) == [method |-> "SLEEP", secs |-> secs]

Returned(op, value) == [op |-> op, kind |-> "return", value |-> value]
Raised(op, kind, value) == [op |-> op, kind |-> kind, value |-> value]
Running(op) == [op |-> op, kind |-> "running", value |-> NoBody]

\* Fault: the token check is made only when request_token is set.
CheckOutcomes_RequestTokenOnly ==
  IF request_token THEN {"ok", "raise"} ELSE {"skip"}

\* if self.request_token or self.refresh_token is not None: self._check_token()
\* The check runs only under that condition; it returns or raises.
CheckOutcomes ==
  IF request_token \/ refresh_token # None THEN {"ok", "raise"} ELSE {"skip"}

CheckLog(c) == IF c = "skip" THEN <<>> ELSE <<CheckEvent>>

\* Line 65: the statuses of the POST under which task_start goes on.
StartAccepts(status) == status \in {200, 201}

\* Fault: the GET of task_start accepts status 200 only.
GetAccepts_OnlyOk(status) == status = 200

\* Line 79: the statuses of the GET under which task_start returns.
GetAccepts(status) == status \in {200, 202}

\* Lines 67-72: the id of the task by the schema of the POST's body.
TaskId(body) ==
  IF body.kind = ImportKind THEN body.id ELSE Str(body._taskId)

\* Faults of the schema detection: no finalize payload at all, and a
\* finalize payload for every schema.
FinalizeData_NoPut(body) == EmptyData
FinalizeData_AlwaysPut(body) == [_taskState |-> "VALIDATING"]

\* Lines 67-72: the payload of the PUT; empty for an import-policy task.
FinalizeData(body) ==
  IF body.kind = ImportKind THEN EmptyData ELSE [_taskState |-> "VALIDATING"]

\* Faults: the state is read from _taskState for every schema, and from
\* state for every schema.
TaskStatus_StandardOnly(body) == body._taskState
TaskStatus_ImportOnly(body) == body.state

\* Lines 110-113 and 141-144: the task state read by the schema of the body.
TaskStatus(body) ==
  IF body.kind = ImportKind THEN body.state ELSE body._taskState

\* Fault: the sleep on the transient condition is left out.
TransientTimeout_Never(r) == FALSE

\* Line 105: the response on which task_wait sleeps before its status check.
TransientTimeout(r) == r.status = 500 /\ r.timeout

\* Fault: a task that is not yet COMPLETED is an error instead of polled again.
PollVerdict_NoRepeat(r) ==
  IF r.status # 200 THEN "raise"
  ELSE IF TaskStatus(r.body) = "COMPLETED" THEN "return"
  ELSE "raise"

\* Fault: a FAILURE state is polled again instead of raised.
PollVerdict_FailureIgnored(r) ==
  IF r.status # 200 THEN "raise"
  ELSE IF TaskStatus(r.body) = "COMPLETED" THEN "return"
  ELSE "sleep"

\* Lines 108-119: what task_wait does with the response of one poll.
PollVerdict(r) ==
  IF r.status # 200 THEN "raise"
  ELSE IF TaskStatus(r.body) = "FAILURE" THEN "raise"
  ELSE IF TaskStatus(r.body) = "COMPLETED" THEN "return"
  ELSE "sleep"

\* Fault: a FAILURE state is reported as not completed.
CompletedVerdict_FailureFalse(r) ==
  IF r.status # 200 THEN "raise"
  ELSE IF TaskStatus(r.body) = "COMPLETED" THEN "true"
  ELSE "false"

\* Lines 139-150: what task_completed does with its response.
CompletedVerdict(r) ==
  IF r.status # 200 THEN "raise"
  ELSE IF TaskStatus(r.body) = "FAILURE" THEN "raise"
  ELSE IF TaskStatus(r.body) = "COMPLETED" THEN "true"
  ELSE "false"

\* Fault: a missing commandResult is read anyway and comes back as None.
ResultValue_NoDefault(body) ==
  IF "commandResult" \in DOMAIN body THEN body.commandResult ELSE None

\* Lines 173-176: the text task_result returns for a body.
ResultValue(body) ==
  IF "commandResult" \in DOMAIN body THEN body.commandResult ELSE ""

\* Fault: every status other than 200 is reported as "does not exist".
ExistVerdict_NeverRaises(r) == IF r.status = 200 THEN "true" ELSE "false"

\* Lines 195-199: what exist does with its response.
ExistVerdict(r) ==
  IF r.status = 200 THEN "true"
  ELSE IF r.status = 404 THEN "false"
  ELSE "raise"

\* Fault: an entry that is already present is kept, as setdefault would.
HeadersAfterCreate_KeepExisting(h, transId) == h @@ (CoordinationId :> Str(transId))

\* Lines 218-219: session.headers.update with the new transaction's id.
HeadersAfterCreate(h, transId) == (CoordinationId :> Str(transId)) @@ h

\* Fault: the pop tolerates a missing entry, as pop(key, None) would.
PopRaises_Tolerant(h) == FALSE

\* Lines 244 and 274: session.headers.pop(key) raises KeyError when the
\* coordination entry is missing.
PopRaises(h) == CoordinationId \notin DOMAIN h

\* Lines 244 and 274: session.headers.pop of a present coordination entry.
Pop(h) == [k \in DOMAIN h \ {CoordinationId} |-> h[k]]

\* Fault: transaction_validate puts the header back whatever the status.
HeadersAfterValidate_AlwaysRestore(popped, status, transId) ==
  (CoordinationId :> Str(transId)) @@ popped

\* Fault: transaction_validate does not put the header back.
HeadersAfterValidate_NoRestore(popped, status, transId) == popped

\* Lines 279-283: the headers after the PATCH of transaction_validate.
HeadersAfterValidate(popped, status, transId) ==
  IF status # 200 THEN popped ELSE (CoordinationId :> Str(transId)) @@ popped

\* Fault: transaction_commit puts the header back as transaction_validate does.
HeadersAfterCommit_Restore(popped, status, transId) ==
  IF status # 200 THEN popped ELSE (CoordinationId :> Str(transId)) @@ popped

\* Lines 248-250: the headers after the PATCH of transaction_commit.
HeadersAfterCommit(popped, status, transId) == popped

Count(s, method) == Cardinality({i \in 1..Len(s) : s[i].method = method})

IsRequest(e) == e.method \in {"GET", "POST", "PUT", "PATCH"}

\* The requests among the events `s`, and their methods, in order.
Requests(s) == SelectSeq(s, IsRequest)
Methods(s) == [i \in 1..Len(Requests(s)) |-> Requests(s)[i].method]

(* ------------------------------- Init ---------------------------------- *)

\* The session as BIGIP(device, username, password) constructs it.
Session ==
  /\ headers = <<>>
  /\ _transaction = NoTransaction
  /\ pc = "idle"
  /\ url = <<>>
  /\ data = EmptyData
  /\ interval = DefaultInterval
  /\ response = NoResponse
  /\ log = <<>>
  /\ outcome = [op |-> "none", kind |-> "none", value |-> NoBody]
  /\ scope = "out"
  /\ created = NoTransaction
  /\ open = FALSE
  /\ validated = FALSE
  /\ committed = FALSE
  /\ overwritten = FALSE

\* Construction with the default arguments: request_token=False, token=None.
Init ==
  /\ request_token = FALSE
  /\ refresh_token = None
  /\ Session

\* Construction with token authentication: request_token=True, or a refresh
\* token given.  Each setting makes one disjunct of the guard of lines 61,
\* 97, 102, 134, 165, 191, 211, 241 and 271 true alone.
InitAuth ==
  /\ \/ request_token = TRUE /\ refresh_token = None
     \/ request_token = FALSE /\ refresh_token = "refresh"
  /\ Session

\* The operation `op` ends here: its locals are gone.
Finish(o) ==
  /\ pc' = "idle"
  /\ outcome' = o
  /\ url' = <<>>
  /\ data' = EmptyData
  /\ interval' = DefaultInterval

(* ----------------------------- task_start ------------------------------ *)

\* Lines 61-74: token check, POST, status check, schema detection.
TaskStartPost(path, payload) ==
  /\ pc = "idle"
  /\ \E c \in CheckOutcomes :
       IF c = "raise"
       THEN /\ log' = CheckLog(c)
            /\ response' = NoResponse
            /\ Finish(Raised("task_start", "AuthError", NoResponse))
       ELSE \E r \in PostResponses :
            /\ log' = CheckLog(c) \o <<Request("POST", _get_url(path), payload, r)>>
            /\ response' = r
            /\ IF ~StartAccepts(r.status)
               THEN Finish(Raised("task_start", "RESTAPIError", r))
               ELSE LET id_ == TaskId(r.body)
                        d == FinalizeData(r.body)
                    IN /\ url' = _get_url(path) \o <<id_>>
                       /\ data' = d
                       /\ pc' = IF d # EmptyData THEN "start_put" ELSE "start_get"
                       /\ outcome' = Running("task_start")
                       /\ UNCHANGED interval
  /\ UNCHANGED <<config, session, scope, history>>

\* Lines 75-77: the PUT of the finalize payload; its status is only printed.
TaskStartPut ==
  /\ pc = "start_put"
  /\ \E r \in PutResponses :
       /\ log' = Append(log, Request("PUT", url, data, r))
       /\ response' = r
  /\ pc' = "start_get"
  /\ UNCHANGED <<config, session, locals, outcome, scope, history>>

\* Lines 78-81: the GET of the task, status check, the returned object.
TaskStartGet ==
  /\ pc = "start_get"
  /\ \E r \in GetResponses :
       /\ log' = Append(log, Request("GET", url, EmptyData, r))
       /\ response' = r
       /\ IF ~GetAccepts(r.status)
          THEN Finish(Raised("task_start", "RESTAPIError", r))
          ELSE Finish(Returned("task_start", r.body))
  /\ UNCHANGED <<config, session, scope, history>>

(* ----------------------------- task_wait ------------------------------- *)

\* Lines 97-100: token check before the loop, path and url of the task.
TaskWaitCall(obj, secs) ==
  /\ pc = "idle"
  /\ response' = NoResponse
  /\ \E c \in CheckOutcomes :
       /\ log' = CheckLog(c)
       /\ IF c = "raise"
          THEN Finish(Raised("task_wait", "AuthError", NoResponse))
          ELSE /\ url' = _get_url(_get_path(obj))
               /\ interval' = secs
               /\ pc' = "wait_loop"
               /\ outcome' = Running("task_wait")
               /\ UNCHANGED data
  /\ UNCHANGED <<config, session, scope, history>>

\* Lines 101-119: one iteration of the loop.
TaskWaitPoll ==
  /\ pc = "wait_loop"
  /\ Count(log, "GET") < MaxPolls
  /\ \E c \in CheckOutcomes :
       IF c = "raise"
       THEN /\ log' = log \o CheckLog(c)
            /\ UNCHANGED response
            /\ Finish(Raised("task_wait", "AuthError", NoResponse))
       ELSE \E r \in PollResponses :
            LET sent == log \o CheckLog(c) \o <<Request("GET", url, EmptyData, r)>>
                slept == IF TransientTimeout(r)
                         THEN Append(sent, SleepEvent(interval)) ELSE sent
            IN /\ response' = r
               /\ IF PollVerdict(r) = "raise"
                  THEN /\ log' = slept
                       /\ Finish(Raised("task_wait", "RESTAPIError", r))
                  ELSE IF PollVerdict(r) = "return"
                  THEN /\ log' = slept
                       /\ Finish(Returned("task_wait", r.body))
                  ELSE /\ log' = Append(slept, SleepEvent(interval))
                       /\ UNCHANGED <<pc, outcome, locals>>
  /\ UNCHANGED <<config, session, scope, history>>

(* --------------------------- task_completed ---------------------------- *)

\* Lines 134-150.
TaskCompleted(obj) ==
  /\ pc = "idle"
  /\ \E c \in CheckOutcomes :
       IF c = "raise"
       THEN /\ log' = CheckLog(c)
            /\ response' = NoResponse
            /\ Finish(Raised("task_completed", "AuthError", NoResponse))
       ELSE \E r \in PollResponses :
            /\ log' = CheckLog(c)
                        \o <<Request("GET", _get_url(_get_path(obj)), EmptyData, r)>>
            /\ response' = r
            /\ IF CompletedVerdict(r) = "raise"
               THEN Finish(Raised("task_completed", "RESTAPIError", r))
               ELSE IF CompletedVerdict(r) = "true"
               THEN Finish(Returned("task_completed", TRUE))
               ELSE Finish(Returned("task_completed", FALSE))
  /\ UNCHANGED <<config, session, scope, history>>

(* ----------------------------- task_result ----------------------------- *)

\* Lines 165-176.
TaskResult(obj) ==
  /\ pc = "idle"
  /\ \E c \in CheckOutcomes :
       IF c = "raise"
       THEN /\ log' = CheckLog(c)
            /\ response' = NoResponse
            /\ Finish(Raised("task_result", "AuthError", NoResponse))
       ELSE \E r \in ResultResponses :
            /\ log' = CheckLog(c)
                        \o <<Request("GET", _get_url(_get_path(obj)) \o <<"result">>,
                                     EmptyData, r)>>
            /\ response' = r
            /\ IF r.status # 200
               THEN Finish(Raised("task_result", "RESTAPIError", r))
               ELSE Finish(Returned("task_result", ResultValue(r.body)))
  /\ UNCHANGED <<config, session, scope, history>>

(* -------------------------------- exist -------------------------------- *)

\* Lines 191-199.
Exist(path) ==
  /\ pc = "idle"
  /\ \E c \in CheckOutcomes :
       IF c = "raise"
       THEN /\ log' = CheckLog(c)
            /\ response' = NoResponse
            /\ Finish(Raised("exist", "AuthError", NoResponse))
       ELSE \E r \in ExistResponses :
            /\ log' = CheckLog(c) \o <<Request("GET", _get_url(path), EmptyData, r)>>
            /\ response' = r
            /\ IF ExistVerdict(r) = "true"
               THEN Finish(Returned("exist", TRUE))
               ELSE IF ExistVerdict(r) = "false"
               THEN Finish(Returned("exist", FALSE))
               ELSE Finish(Raised("exist", "RESTAPIError", r))
  /\ UNCHANGED <<config, session, scope, history>>

(* ------------------------- transaction_create -------------------------- *)

\* Lines 211-220, called as `op` (transaction_create itself, or __enter__,
\* lines 222-229, which returns its result).  `entered` is the scope the
\* caller is in when the call returns.
Create(op, entered) ==
  /\ pc = "idle"
  /\ \E c \in CheckOutcomes :
       IF c = "raise"
       THEN /\ log' = CheckLog(c)
            /\ response' = NoResponse
            /\ Finish(Raised(op, "AuthError", NoResponse))
            /\ UNCHANGED <<session, scope, created, open, validated, committed, overwritten>>
       ELSE \E r \in TransactionResponses :
            /\ log' = CheckLog(c)
                        \o <<Request("POST", _get_url(TransactionPath), EmptyData, r)>>
            /\ response' = r
            /\ IF r.status # 200
               THEN /\ Finish(Raised(op, "RESTAPIError", r))
                    /\ UNCHANGED <<session, scope, created, open, validated, committed, overwritten>>
               ELSE /\ _transaction' = r.body.transId
                    /\ headers' = HeadersAfterCreate(headers, r.body.transId)
                    /\ Finish(Returned(op, r.body))
                    /\ scope' = entered
                    /\ created' = r.body.transId
                    /\ open' = TRUE
                    /\ validated' = FALSE
                    /\ committed' = FALSE
                    /\ overwritten' = (/\ CoordinationId \in DOMAIN headers
                                       /\ headers[CoordinationId] # Str(r.body.transId))
  /\ UNCHANGED config

TransactionCreate == Create("transaction_create", scope)

\* Lines 222-229: the with-statement runs its body only when __enter__ returns.
Enter ==
  /\ scope = "out"
  /\ Create("__enter__", "body")

(* ------------------------- transaction_commit -------------------------- *)

\* Lines 241-250, called as `op` (transaction_commit itself, or __exit__,
\* lines 252-259).  `pending` tells that the with-body raised an error: since
\* __exit__ returns None, that error is raised again once __exit__ returns.
Commit(op, left, pending) ==
  /\ pc = "idle"
  /\ scope' = left
  /\ open' = FALSE
  /\ \E c \in CheckOutcomes :
       IF c = "raise"
       THEN /\ log' = CheckLog(c)
            /\ response' = NoResponse
            /\ Finish(Raised(op, "AuthError", NoResponse))
            /\ UNCHANGED <<session, committed>>
       ELSE IF PopRaises(headers)
       THEN /\ log' = CheckLog(c)
            /\ response' = NoResponse
            /\ Finish(Raised(op, "KeyError", NoResponse))
            /\ UNCHANGED <<session, committed>>
       ELSE \E r \in TransactionResponses :
            LET u == _get_url(TransactionPath \o <<Str(_transaction)>>)
            IN /\ log' = CheckLog(c)
                           \o <<Sent("PATCH", u, [state |-> "VALIDATING"], Pop(headers), r)>>
               /\ response' = r
               /\ headers' = HeadersAfterCommit(Pop(headers), r.status, _transaction)
               /\ committed' = TRUE
               /\ UNCHANGED _transaction
               /\ IF r.status # 200
                  THEN Finish(Raised(op, "RESTAPIError", r))
                  ELSE IF pending
                  THEN Finish(Raised(op, "BodyError", NoResponse))
                  ELSE IF op = "__exit__"
                  THEN Finish(Returned(op, NoBody))
                  ELSE Finish(Returned(op, r.body))
  /\ UNCHANGED <<config, created, validated, overwritten>>

TransactionCommit == Commit("transaction_commit", scope, FALSE)

\* Fault: __exit__ leaves the scope without calling transaction_commit.
ExitNormal_NoCommit ==
  /\ scope = "body"
  /\ pc = "idle"
  /\ scope' = "out"
  /\ log' = <<>>
  /\ response' = NoResponse
  /\ Finish(Returned("__exit__", NoBody))
  /\ UNCHANGED <<config, session, history>>

\* The with-body ended normally: __exit__(None, None, None).
ExitNormal ==
  /\ scope = "body"
  /\ Commit("__exit__", "out", FALSE)

\* Fault: __exit__ swallows the error of the with-body, as a true return
\* value would.
ExitError_Suppress ==
  /\ scope = "body"
  /\ Commit("__exit__", "out", FALSE)

\* The with-body raised: __exit__(type, value, traceback).
ExitError ==
  /\ scope = "body"
  /\ Commit("__exit__", "out", TRUE)

(* ------------------------ transaction_validate ------------------------- *)

\* Lines 271-284.
TransactionValidate ==
  /\ pc = "idle"
  /\ \E c \in CheckOutcomes :
       IF c = "raise"
       THEN /\ log' = CheckLog(c)
            /\ response' = NoResponse
            /\ Finish(Raised("transaction_validate", "AuthError", NoResponse))
            /\ open' = FALSE
            /\ UNCHANGED <<session, validated>>
       ELSE IF PopRaises(headers)
       THEN /\ log' = CheckLog(c)
            /\ response' = NoResponse
            /\ Finish(Raised("transaction_validate", "KeyError", NoResponse))
            /\ open' = FALSE
            /\ UNCHANGED <<session, validated>>
       ELSE \E r \in TransactionResponses :
            LET u == _get_url(TransactionPath \o <<Str(_transaction)>>)
            IN /\ log' = CheckLog(c)
                           \o <<Sent("PATCH", u,
                                     [validateOnly |-> TRUE, state |-> "VALIDATING"],
                                     Pop(headers), r)>>
               /\ response' = r
               /\ headers' = HeadersAfterValidate(Pop(headers), r.status, _transaction)
               /\ UNCHANGED _transaction
               /\ IF r.status # 200
                  THEN /\ Finish(Raised("transaction_validate", "RESTAPIError", r))
                       /\ open' = FALSE
                       /\ UNCHANGED validated
                  ELSE /\ Finish(Returned("transaction_validate", r.body))
                       /\ open' = TRUE
                       /\ validated' = TRUE
  /\ UNCHANGED <<config, scope, created, committed, overwritten>>

(* ------------------------------- Next ---------------------------------- *)

Next ==
  \/ \E payload \in Payloads : TaskStartPost(TaskPath, payload)
  \/ TaskStartPut
  \/ TaskStartGet
  \/ \E obj \in TaskObjs : TaskWaitCall(obj, DefaultInterval)
  \/ TaskWaitPoll
  \/ \E obj \in TaskObjs : TaskCompleted(obj)
  \/ \E obj \in TaskObjs : TaskResult(obj)
  \/ Exist(ExistPath)
  \/ TransactionCreate
  \/ Enter
  \/ TransactionValidate
  \/ TransactionCommit
  \/ ExitNormal
  \/ ExitError

Spec == Init /\ [][Next]_vars

SpecAuth == InitAuth /\ [][Next]_vars

(* ------------------------------ properties ----------------------------- *)

\* The task state of a body by the schema of the body: an import-policy body
\* carries it in `state`, every other body in `_taskState`.
StateOf(body) == IF body.kind = ImportKind THEN body.state ELSE body._taskState

HasId(h, transId) == CoordinationId \in DOMAIN h /\ h[CoordinationId] = Str(transId)
NoId(h) == CoordinationId \notin DOMAIN h

TaskOps == {"task_start", "task_wait", "task_completed", "task_result", "exist"}

\* C1: when the POST of task_start is accepted (200 or 201) with a body whose
\* kind is not the import-policy kind, the requests of task_start are one
\* POST, then one PUT to <path>/<_taskId>, then one GET to the same URL, in
\* that order, whatever the status of the PUT's response; while the call runs
\* its requests are a prefix of that sequence.
C1_StandardStartSequence ==
  LET q == Requests(log) IN
  (/\ outcome.op = "task_start"
   /\ q # <<>>
   /\ q[1].resp.status \in {200, 201}
   /\ q[1].resp.body.kind # ImportKind)
  => LET target == q[1].url \o <<Str(q[1].resp.body._taskId)>> IN
     /\ q[1].method = "POST"
     /\ pc \in {"start_put", "start_get", "idle"}
     /\ pc = "start_put" => Methods(log) = <<"POST">>
     /\ pc = "start_get" => Methods(log) = <<"POST", "PUT">> /\ q[2].url = target
     /\ pc = "idle" => /\ Methods(log) = <<"POST", "PUT", "GET">>
                       /\ q[2].url = target
                       /\ q[3].url = target

\* A standard task_start returned although its PUT was answered 500.
C1_Witness ==
  /\ pc = "idle"
  /\ outcome.op = "task_start"
  /\ outcome.kind = "return"
  /\ Len(log) = 3
  /\ log[1].resp.body.kind = OtherKind
  /\ log[2].method = "PUT"
  /\ log[2].resp.status = 500

\* C2: when the POST of task_start is accepted with a body of the
\* import-policy kind, the requests of task_start are one POST followed by one
\* GET to <path>/<id>, and no PUT is ever sent.
C2_ImportStartSequence ==
  LET q == Requests(log) IN
  (/\ outcome.op = "task_start"
   /\ q # <<>>
   /\ q[1].resp.status \in {200, 201}
   /\ q[1].resp.body.kind = ImportKind)
  => /\ q[1].method = "POST"
     /\ \A i \in 1..Len(q) : q[i].method # "PUT"
     /\ pc \in {"start_get", "idle"}
     /\ pc = "start_get" => Methods(log) = <<"POST">>
     /\ pc = "idle" => /\ Methods(log) = <<"POST", "GET">>
                       /\ q[2].url = q[1].url \o <<q[1].resp.body.id>>

\* An import-policy task_start returned.
C2_Witness ==
  /\ pc = "idle"
  /\ outcome.op = "task_start"
  /\ outcome.kind = "return"
  /\ Len(log) = 2
  /\ log[1].resp.body.kind = ImportKind
  /\ log[1].resp.status = 201

\* C3: a poll of task_wait answered with status 200 and state COMPLETED is the
\* last event of the call: nothing is sent and no sleep happens after it, and
\* task_wait has returned the body of that response, whose state is COMPLETED.
C3_WaitReturnsOnCompleted ==
  outcome.op = "task_wait" =>
    \A i \in 1..Len(log) :
      (/\ log[i].method = "GET"
       /\ log[i].resp.status = 200
       /\ StateOf(log[i].resp.body) = "COMPLETED")
      => /\ i = Len(log)
         /\ pc = "idle"
         /\ outcome = Returned("task_wait", log[i].resp.body)
         /\ StateOf(outcome.value) = "COMPLETED"

\* task_wait returned an import-policy task at its second poll or later.
C3_Witness ==
  /\ outcome.op = "task_wait"
  /\ outcome.kind = "return"
  /\ Count(log, "GET") >= 2
  /\ outcome.value.kind = ImportKind
  /\ outcome.value._taskState # "COMPLETED"

\* C4: a poll of task_wait answered with status 200 and state FAILURE is the
\* last event of the call: no further GET and no sleep follow it, and
\* task_wait has raised RESTAPIError for that response instead of returning.
C4_WaitRaisesOnFailure ==
  outcome.op = "task_wait" =>
    \A i \in 1..Len(log) :
      (/\ log[i].method = "GET"
       /\ log[i].resp.status = 200
       /\ StateOf(log[i].resp.body) = "FAILURE")
      => /\ i = Len(log)
         /\ pc = "idle"
         /\ outcome = Raised("task_wait", "RESTAPIError", log[i].resp)

\* task_wait raised on a FAILURE state seen at its second poll or later.
C4_Witness ==
  /\ outcome.op = "task_wait"
  /\ outcome.kind = "RESTAPIError"
  /\ Count(log, "GET") >= 2
  /\ outcome.value.status = 200
  /\ StateOf(outcome.value.body) = "FAILURE"

\* C5: a poll of task_wait answered with status 500 and a text containing
\* "AsyncContext timeout" does not end the call with an error: task_wait is
\* still polling after it, or has already sent a further GET.
C5_TimeoutKeepsPolling ==
  outcome.op = "task_wait" =>
    \A i \in 1..Len(log) :
      (/\ log[i].method = "GET"
       /\ log[i].resp.status = 500
       /\ log[i].resp.timeout)
      => /\ outcome # Raised("task_wait", "RESTAPIError", log[i].resp)
         /\ \/ pc = "wait_loop"
            \/ \E j \in (i + 1)..Len(log) : log[j].method = "GET"

\* C6: through create, validate, commit the coordination header is present
\* with the created transaction's id after a successful create and after a
\* successful validate, it is absent from every PATCH that validate or commit
\* sends, and it is absent in every state after a commit sent its PATCH until
\* the next successful create.
C6_HeaderThroughTransaction ==
  /\ open => HasId(headers, created)
  /\ \A i \in 1..Len(log) : log[i].method = "PATCH" => NoId(log[i].hdr)
  /\ committed => NoId(headers)

\* create, validate and commit all succeeded, in that order.
C6_Witness ==
  /\ outcome.op = "transaction_commit"
  /\ outcome.kind = "return"
  /\ validated
  /\ committed
  /\ created \in TransIds
  /\ NoId(headers)

\* C7: while a create or a validate has succeeded and no validate or commit
\* was called since, every request that task_start, task_wait,
\* task_completed, task_result or exist sends carries the coordination header
\* with the id of the created transaction.
C7_RequestsCarryHeader ==
  (open /\ outcome.op \in TaskOps) =>
    \A i \in 1..Len(log) : IsRequest(log[i]) => HasId(log[i].hdr, created)

\* task_start ran all three requests after a successful validate.
C7_Witness ==
  /\ open
  /\ validated
  /\ pc = "idle"
  /\ outcome.op = "task_start"
  /\ Methods(log) = <<"POST", "PUT", "GET">>

\* C8: task_start raises RESTAPIError for a POST answered with a status other
\* than 200 and 201, and then has sent nothing but the POST; it raises
\* RESTAPIError for a final GET answered with a status other than 200 and 202;
\* it ends in no other way than these two and returning the body of the GET.
C8_StartOutcome ==
  LET q == Requests(log) IN
  (outcome.op = "task_start" /\ q # <<>>) =>
    /\ q[1].resp.status \notin {200, 201}
         => /\ pc = "idle"
            /\ Len(q) = 1
            /\ outcome = Raised("task_start", "RESTAPIError", q[1].resp)
    /\ pc = "idle"
         => \/ q[1].resp.status \notin {200, 201}
            \/ /\ q[Len(q)].method = "GET"
               /\ IF q[Len(q)].resp.status \notin {200, 202}
                  THEN outcome = Raised("task_start", "RESTAPIError", q[Len(q)].resp)
                  ELSE outcome = Returned("task_start", q[Len(q)].resp.body)

\* task_start returned the body of a GET answered 202.
C8_Witness ==
  /\ pc = "idle"
  /\ outcome.op = "task_start"
  /\ outcome.kind = "return"
  /\ log[Len(log)].method = "GET"
  /\ log[Len(log)].resp.status = 202
  /\ outcome.value = log[Len(log)].resp.body

\* C9: task_completed sends exactly one GET; it returns TRUE exactly when the
\* response has status 200 and state COMPLETED, FALSE when it has status 200
\* and a state other than COMPLETED and FAILURE, and raises RESTAPIError when
\* the status is not 200 or the state is FAILURE.
C9_CompletedOutcome ==
  LET q == Requests(log) IN
  (outcome.op = "task_completed" /\ q # <<>>) =>
    /\ pc = "idle"
    /\ Methods(log) = <<"GET">>
    /\ IF q[1].resp.status # 200
       THEN outcome = Raised("task_completed", "RESTAPIError", q[1].resp)
       ELSE IF StateOf(q[1].resp.body) = "FAILURE"
       THEN outcome = Raised("task_completed", "RESTAPIError", q[1].resp)
       ELSE outcome = Returned("task_completed", StateOf(q[1].resp.body) = "COMPLETED")

\* task_completed raised on the FAILURE state of an import-policy task.
C9_Witness ==
  /\ outcome.op = "task_completed"
  /\ outcome.kind = "RESTAPIError"
  /\ outcome.value.status = 200
  /\ outcome.value.body.kind = ImportKind
  /\ outcome.value.body.state = "FAILURE"
  /\ outcome.value.body._taskState = "COMPLETED"

\* C10: entering the scope sends the one POST of transaction_create and, when
\* it is answered 200, puts the caller in the body with the header set; a
\* normal exit whose commit is answered 200 has sent exactly the one PATCH of
\* transaction_commit for the created transaction, and leaves the caller out
\* of the scope with the header absent.
C10_ScopeCreatesAndCommits ==
  LET q == Requests(log) IN
  /\ (outcome.op = "__enter__" /\ outcome.kind # "AuthError")
       => /\ Methods(log) = <<"POST">>
          /\ q[1].url = _get_url(TransactionPath)
          /\ outcome.kind = "return" <=> q[1].resp.status = 200
          /\ outcome.kind = "return"
               => /\ scope = "body"
                  /\ created = q[1].resp.body.transId
                  /\ HasId(headers, created)
  /\ (outcome.op = "__exit__" /\ outcome.kind \notin {"AuthError", "KeyError"})
       => /\ Methods(log) = <<"PATCH">>
          /\ q[1].url = _get_url(TransactionPath \o <<Str(created)>>)
          /\ q[1].json = [state |-> "VALIDATING"]
          /\ q[1].resp.status = 200 <=> outcome.kind \in {"return", "BodyError"}
          /\ scope = "out"
          /\ NoId(headers)

\* The scope was entered, its transaction validated, and left by a normal exit.
C10_Witness ==
  /\ outcome = Returned("__exit__", NoBody)
  /\ validated
  /\ scope = "out"
  /\ log[1].resp.status = 200

\* Token-based auth is configured or a refresh token exists.
TokenAuth == request_token \/ refresh_token # None

\* C11: under token auth every operation calls the token check before its
\* first request, task_wait calls it again right before the GET of every
\* poll, and when the check raises nothing is sent after it: the operation
\* (or the iteration) ends on the check.
C11_CheckBeforeRequests ==
  (TokenAuth /\ outcome.op # "none") =>
    /\ log # <<>>
    /\ log[1].method = "CHECK"
    /\ outcome.op # "task_wait" => Count(log, "CHECK") = 1
    /\ outcome.op = "task_wait" =>
         \A i \in 1..Len(log) :
           log[i].method = "GET" => (i >= 3 /\ log[i - 1].method = "CHECK")
    /\ outcome.kind = "AuthError" =>
         /\ pc = "idle"
         /\ log[Len(log)].method = "CHECK"
         /\ outcome.op # "task_wait" => Requests(log) = <<>>

\* With only a refresh token set, the check raised in the second iteration of
\* task_wait: one GET was sent, none after the failed check.
C11_Witness ==
  /\ ~request_token
  /\ refresh_token # None
  /\ outcome = Raised("task_wait", "AuthError", NoResponse)
  /\ Count(log, "GET") = 1
  /\ Count(log, "CHECK") = 3

\* C12: exist sends exactly one GET; it returns TRUE for status 200, FALSE
\* for status 404, and raises RESTAPIError for every other status.
C12_ExistOutcome ==
  LET q == Requests(log) IN
  (outcome.op = "exist" /\ q # <<>>) =>
    /\ pc = "idle"
    /\ Methods(log) = <<"GET">>
    /\ q[1].url = _get_url(ExistPath)
    /\ outcome = IF q[1].resp.status = 200 THEN Returned("exist", TRUE)
                 ELSE IF q[1].resp.status = 404 THEN Returned("exist", FALSE)
                 ELSE Raised("exist", "RESTAPIError", q[1].resp)

\* exist raised on a 2xx status other than 200.
C12_Witness ==
  /\ outcome.op = "exist"
  /\ outcome.kind = "RESTAPIError"
  /\ outcome.value.status = 202

\* C13: task_result sends exactly one GET, to <task url>/result; it raises
\* RESTAPIError when the status is not 200, and otherwise returns the value of
\* commandResult when the body has that field and the empty string when not.
C13_ResultOutcome ==
  LET q == Requests(log) IN
  (outcome.op = "task_result" /\ q # <<>>) =>
    /\ pc = "idle"
    /\ Methods(log) = <<"GET">>
    /\ \E obj \in TaskObjs : q[1].url = _get_url(obj.selfLink) \o <<"result">>
    /\ outcome = IF q[1].resp.status # 200
                 THEN Raised("task_result", "RESTAPIError", q[1].resp)
                 ELSE IF "commandResult" \in DOMAIN q[1].resp.body
                 THEN Returned("task_result", q[1].resp.body.commandResult)
                 ELSE Returned("task_result", "")

\* task_result returned "" for a 200 body without commandResult.
C13_Witness ==
  /\ outcome = Returned("task_result", "")
  /\ log[Len(log)].resp.status = 200
  /\ "commandResult" \notin DOMAIN log[Len(log)].resp.body

\* C14: a poll of task_wait answered with status 500 and a text containing
\* "AsyncContext timeout" is followed by exactly one sleep of the interval and
\* by nothing else: no GET is sent after it, and the non-200 rule raises
\* RESTAPIError for that same response.
C14_TimeoutSleepsThenRaises ==
  outcome.op = "task_wait" =>
    \A i \in 1..Len(log) :
      (/\ log[i].method = "GET"
       /\ log[i].resp.status = 500
       /\ log[i].resp.timeout)
      => /\ Len(log) = i + 1
         /\ log[i + 1] = SleepEvent(DefaultInterval)
         /\ pc = "idle"
         /\ outcome = Raised("task_wait", "RESTAPIError", log[i].resp)

\* The transient condition was met at the second poll: one sleep after the
\* first poll, one after the 500 response, then the error.
C14_Witness ==
  /\ outcome.op = "task_wait"
  /\ outcome.kind = "RESTAPIError"
  /\ outcome.value.status = 500
  /\ outcome.value.timeout
  /\ Count(log, "GET") = 2
  /\ Count(log, "SLEEP") = 2

\* A poll answered with status 200 and a state that is not terminal.
NonTerminal(r) == r.status = 200 /\ StateOf(r.body) \notin {"COMPLETED", "FAILURE"}

\* C15: after n polls of task_wait that were all answered with status 200 and
\* a state other than COMPLETED and FAILURE, for every n the model reaches,
\* task_wait has neither returned nor raised, it has slept the interval once
\* after each poll, and the next poll can be sent; a finished task_wait has
\* returned a COMPLETED task or raised an error.
C15_WaitKeepsPolling ==
  outcome.op = "task_wait" =>
    /\ (\A i \in 1..Len(log) : log[i].method = "GET" => NonTerminal(log[i].resp))
         => /\ pc = "wait_loop"
            /\ outcome = Running("task_wait")
            /\ Len(log) = 2 * Count(log, "GET")
            /\ \A i \in 1..Len(log) :
                 IF i % 2 = 1 THEN log[i].method = "GET"
                              ELSE log[i] = SleepEvent(interval)
            /\ Count(log, "GET") < MaxPolls => ENABLED TaskWaitPoll
    /\ pc = "idle"
         => \/ /\ outcome.kind = "return"
               /\ StateOf(outcome.value) = "COMPLETED"
            \/ outcome.kind = "RESTAPIError"

\* As many polls as the model allows were all answered with a state that is
\* not terminal, and task_wait is still in its loop.
C15_Witness ==
  /\ pc = "wait_loop"
  /\ Count(log, "GET") = MaxPolls
  /\ Count(log, "SLEEP") = MaxPolls
  /\ \A i \in 1..Len(log) : log[i].method = "GET" => NonTerminal(log[i].resp)

\* What task_wait and task_completed do for a 200 response `r` whose task
\* state is `state`: an error for FAILURE, their result for COMPLETED.
DecidedBy(op, state, r) ==
  IF state = "FAILURE" THEN outcome = Raised(op, "RESTAPIError", r)
  ELSE IF state = "COMPLETED"
  THEN outcome = Returned(op, IF op = "task_wait" THEN r.body ELSE TRUE)
  ELSE IF op = "task_wait" THEN pc = "wait_loop"
  ELSE outcome = Returned(op, FALSE)

\* C16: for the last 200 response of task_wait and for the 200 response of
\* task_completed, the field `state` alone decides the outcome when the kind
\* is the import-policy kind, and the field `_taskState` alone decides it for
\* every other kind; the same rule holds for both operations.
C16_SchemaRule ==
  LET q == Requests(log) IN
  (/\ outcome.op \in {"task_wait", "task_completed"}
   /\ q # <<>>
   /\ q[Len(q)].resp.status = 200)
  => LET r == q[Len(q)].resp IN
     /\ r.body.kind = ImportKind => DecidedBy(outcome.op, r.body.state, r)
     /\ r.body.kind # ImportKind => DecidedBy(outcome.op, r.body._taskState, r)

\* task_completed returned TRUE for an import-policy task whose state is
\* COMPLETED although its _taskState says FAILURE.
C16_Witness ==
  /\ outcome = Returned("task_completed", TRUE)
  /\ log[Len(log)].resp.body.kind = ImportKind
  /\ log[Len(log)].resp.body.state = "COMPLETED"
  /\ log[Len(log)].resp.body._taskState = "FAILURE"

TransactionEnds == {"transaction_validate", "transaction_commit", "__exit__"}

\* C17: a transaction_validate or transaction_commit (also as __exit__) that
\* gets past the token check while the coordination header is absent ends
\* with KeyError without having sent any request, and leaves the tracked
\* transaction id and the session headers as they were.
C17_AbsentHeaderKeyError ==
  [][(/\ pc = "idle"
      /\ NoId(headers)
      /\ outcome'.op \in TransactionEnds
      /\ outcome'.kind # "AuthError")
     => /\ outcome'.kind = "KeyError"
        /\ pc' = "idle"
        /\ Requests(log') = <<>>
        /\ headers' = headers
        /\ _transaction' = _transaction]_vars

\* transaction_validate raised KeyError after the transaction was committed.
C17_Witness ==
  /\ outcome = Raised("transaction_validate", "KeyError", NoResponse)
  /\ committed
  /\ _transaction \in TransIds
  /\ NoId(headers)
  /\ log = <<>>

\* C18: the session tracks one transaction id, the transId returned by the
\* most recent successful transaction_create, and whenever the coordination
\* header is present its value is that id: a second create overwrites both
\* the tracked id and the header.
C18_OneTransactionTracked ==
  /\ _transaction = created
  /\ DOMAIN headers \subseteq {CoordinationId}
  /\ CoordinationId \in DOMAIN headers => headers[CoordinationId] = Str(created)

\* A create succeeded while the header of another transaction was present.
C18_Witness ==
  /\ overwritten
  /\ outcome.op = "transaction_create"
  /\ outcome.kind = "return"
  /\ ~committed
  /\ _transaction = outcome.value.transId
  /\ HasId(headers, outcome.value.transId)

\* The last operation was a validate or a commit (called directly or by
\* __exit__) whose PATCH was answered with a status other than 200.
PatchFailed(o, l) ==
  /\ o.op \in TransactionEnds
  /\ Requests(l) # <<>>
  /\ Requests(l)[1].resp.status # 200

\* C19: a validate or a commit whose PATCH is answered with a status other
\* than 200 raises RESTAPIError with that response and leaves the
\* coordination header removed; while the header is absent the requests of
\* the task operations and of exist carry no coordination header; and an
\* absent header comes back only by a successful create.
C19_FailedPatchDropsHeader ==
  [][/\ PatchFailed(outcome', log') =>
          /\ Methods(log') = <<"PATCH">>
          /\ outcome' = Raised(outcome'.op, "RESTAPIError", Requests(log')[1].resp)
          /\ NoId(headers')
          /\ _transaction' = _transaction
     /\ (NoId(headers') /\ outcome'.op \in TaskOps) =>
          \A i \in 1..Len(log') : IsRequest(log'[i]) => NoId(log'[i].hdr)
     /\ (NoId(headers) /\ ~NoId(headers')) =>
          /\ outcome'.op \in {"transaction_create", "__enter__"}
          /\ outcome'.kind = "return"
          /\ HasId(headers', outcome'.value.transId)]_vars

\* A validate failed on a transaction no commit was sent for, and a request
\* sent afterwards went out without the header.
C19_Witness ==
  /\ created \in TransIds
  /\ ~committed
  /\ NoId(headers)
  /\ outcome.op = "exist"
  /\ Requests(log) # <<>>
  /\ NoId(Requests(log)[1].hdr)

\* C20: when the with-body raised, __exit__ still runs transaction_commit:
\* with the header present it sends the commit PATCH for the tracked
\* transaction, without the header, and the scope is left; __exit__ never
\* ends by a plain return then: after a PATCH answered 200 the error of the
\* body is raised, otherwise the error of the commit.
C20_ExitCommitsOnError ==
  [][ExitError =>
       /\ outcome'.op = "__exit__"
       /\ outcome'.kind \in {"BodyError", "RESTAPIError", "KeyError", "AuthError"}
       /\ scope' = "out"
       /\ (~NoId(headers) /\ outcome'.kind # "AuthError") =>
            /\ Methods(log') = <<"PATCH">>
            /\ Requests(log')[1].url = _get_url(TransactionPath \o <<Str(_transaction)>>)
            /\ Requests(log')[1].json = [state |-> "VALIDATING"]
            /\ NoId(Requests(log')[1].hdr)
            /\ NoId(headers')
            /\ (outcome'.kind = "BodyError" <=> Requests(log')[1].resp.status = 200)
       /\ outcome'.kind = "BodyError" => Methods(log') = <<"PATCH">>]_vars

\* The body raised, the commit PATCH was sent and answered 200, and the
\* error of the body came out of the scope.
C20_Witness ==
  /\ outcome = Raised("__exit__", "BodyError", NoResponse)
  /\ Methods(log) = <<"PATCH">>
  /\ Requests(log)[1].resp.status = 200
  /\ committed
  /\ scope = "out"
  /\ NoId(headers)

====
